---------------------------- MODULE Spec2Model ----------------------------
(***************************************************************************)
(* Sales analytics platform: the cleaning pipeline (data_cleaner.py), the  *)
(* statistical analyzer (analyzer.py), the loader (data_loader.py) and the *)
(* Streamlit session that wires them together (app.py).                    *)
(*                                                                         *)
(* A table (pandas DataFrame) is a sequence of columns; a column is a      *)
(* record [dtype, vals].  Column names are the column positions 1..n.      *)
(* Every cell is an integer:                                               *)
(*   int storage       the integer itself                                  *)
(*   float storage     twice the real value (so that the median of two     *)
(*                     whole numbers is representable)                     *)
(*   bool storage      0 (False) / 1 (True)                                *)
(*   object, category  the rank of the string in sorted (code point) order *)
(*                     of the strings of TextOf                            *)
(*   datetime64        a time stamp number                                 *)
(*   NA                the missing marker (NaN / None / NaT)               *)
(***************************************************************************)
EXTENDS Integers, Sequences, FiniteSets, TLC

VARIABLES
    page,             \* the section selected in the sidebar radio (app.py:82)
    df_original,      \* st.session_state.df_original
    df_cleaned,       \* st.session_state.df_cleaned
    cleaning_report,  \* st.session_state.cleaning_report
    df_in,            \* the table a core operation is called with
    column,           \* the column argument of a core operation
    ret,              \* what the last core operation returned (or raised)
    cleaner_report,   \* DataCleaner.cleaning_report, the instance field
                      \* (None stands for the {} that __init__ sets)
    cleaned_from      \* history: the argument of the auto_clean call whose
                      \* return value the session stored last

vars == <<page, df_original, df_cleaned, cleaning_report,
          df_in, column, ret, cleaner_report, cleaned_from>>

session_vars == <<page, df_original, df_cleaned, cleaning_report, cleaned_from>>
core_vars == <<df_in, column, ret, cleaner_report>>

-----------------------------------------------------------------------------
(* Bounds of the model *)

MaxRows == 3
MaxCols == 2
SessionRows == 1
WideNumeric == 7        \* numeric columns of the widest table given to
                        \* generate_insights and create_auto_visualizations
WideCategorical == 5    \* categorical columns of that table

-----------------------------------------------------------------------------
(* Python None and optional values *)

None == [some |-> FALSE]
Some(v) == [some |-> TRUE, val |-> v]

\* a call that raised instead of returning
Raised(e) == [raised |-> TRUE, error |-> e]
Returned(v) == [raised |-> FALSE, value |-> v]

-----------------------------------------------------------------------------
(* Cells *)

NA == -1000000

isnull(v) == v = NA

\* The strings of text cells, in sorted order: a cell holds the position.
TextOf ==
    <<"2024-01-15", "Unknown", "a", "w01", "w02", "w03", "w04", "w05",
      "w06", "w07", "w08", "w09", "w10", "w11", "w12", "w13",
      "w14", "w15", "w16", "w17", "w18", "w19", "w20", "w21">>
Text(s) == CHOOSE i \in DOMAIN TextOf : TextOf[i] = s

\* pd.to_datetime accepts the string (errors='raise' raises on the others)
IsDateString(v) == v = Text("2024-01-15")

Abs(a) == IF a < 0 THEN -a ELSE a

Range(s) == {s[i] : i \in DOMAIN s}

RECURSIVE Pow2(_)
Pow2(k) == IF k = 0 THEN 1 ELSE 2 * Pow2(k - 1)

\* The spacing of single-precision values around n (24-bit significand),
\* in the unit of n.
RECURSIVE Quantum(_, _)
Quantum(n, q) == IF Abs(n) < 16777216 * q THEN q ELSE Quantum(n, 2 * q)

\* astype(np.float32) of one value: round to the nearest single-precision
\* value, ties to the even significand.  Exact for a scaled integer because
\* scaling by two is exact in binary floating point.
Float32(n) ==
    LET q == Quantum(n, 1)
        lo == n - (n % q)
        r == n % q
    IN  IF 2 * r < q THEN lo
        ELSE IF 2 * r > q THEN lo + q
        ELSE IF (lo \div q) % 2 = 0 THEN lo ELSE lo + q

-----------------------------------------------------------------------------
(* Tables *)

NumericDtypes == {"int8", "int16", "int32", "int64", "float32", "float64", "bool"}

\* pd.api.types.is_numeric_dtype: integer, floating and boolean storage
is_numeric_dtype(dtype) == dtype \in NumericDtypes

NumCols(df) == Len(df)
NumRows(df) == IF Len(df) = 0 THEN 0 ELSE Len(df[1].vals)
Columns(df) == 1 .. Len(df)

\* row i of the table, across all columns
RowAt(df, i) == [c \in Columns(df) |-> df[c].vals[i]]

\* Series.nunique(): the distinct present values
nunique(col) == Cardinality(Range(col.vals) \ {NA})

\* Series.isnull().sum()
null_count(col) == Cardinality({i \in DOMAIN col.vals : isnull(col.vals[i])})

\* the present values of a column, in row order (Series.dropna)
dropna(col) == SelectSeq(col.vals, LAMBDA v : ~isnull(v))

HasMissing(df) == \E c \in Columns(df) : null_count(df[c]) > 0

-----------------------------------------------------------------------------
(* Arithmetic helpers *)

\* round(a / b) to the nearest integer, ties to even, for b > 0
RoundDiv(a, b) ==
    LET q == a \div b
        r == a % b
    IN  IF 2 * r < b THEN q
        ELSE IF 2 * r > b THEN q + 1
        ELSE IF q % 2 = 0 THEN q ELSE q + 1

\* round(a / b * 100, 2), held in hundredths of a percent
Percent2(a, b) == RoundDiv(a * 10000, b)

\* s in rising order: position k holds the value v with fewer than k
\* elements below it and at least k elements not above it
Sorted(s) ==
    LET below == [v \in Range(s) |-> Cardinality({i \in DOMAIN s : s[i] < v})]
        upto == [v \in Range(s) |-> Cardinality({i \in DOMAIN s : s[i] <= v})]
    IN  [k \in 1 .. Len(s) |->
            CHOOSE v \in Range(s) : below[v] < k /\ k <= upto[v]]

\* the sum of s[lo .. hi], by halving
RECURSIVE SumRange(_, _, _)
SumRange(s, lo, hi) ==
    IF lo > hi THEN 0
    ELSE IF lo = hi THEN s[lo]
    ELSE SumRange(s, lo, (lo + hi) \div 2) + SumRange(s, (lo + hi) \div 2 + 1, hi)

SumSeq(s) == SumRange(s, 1, Len(s))

Iota(n) == [i \in 1 .. n |-> i]

RECURSIVE SortedSet(_)
SortedSet(S) ==
    IF S = {} THEN <<>>
    ELSE LET m == CHOOSE x \in S : \A y \in S : x <= y
         IN  <<m>> \o SortedSet(S \ {m})

\* Series.median(): skips missing values; NaN when none is present
median(col) ==
    LET s == Sorted(dropna(col))
        n == Len(s)
    IN  IF n = 0 THEN NA
        ELSE IF n % 2 = 1 THEN s[(n + 1) \div 2]
        ELSE (s[n \div 2] + s[n \div 2 + 1]) \div 2

\* Series.mode(): the most frequent present values, sorted
Count(col, v) == Cardinality({i \in DOMAIN col.vals : col.vals[i] = v})
mode(col) ==
    LET present == Range(col.vals) \ {NA}
        best == {v \in present : \A w \in present : Count(col, w) <= Count(col, v)}
    IN  SortedSet(best)

-----------------------------------------------------------------------------
(* DataCleaner (data_cleaner.py) *)

\* DataFrame.duplicated(): row i repeats an earlier row across all columns
\* (missing cells compare equal to missing cells)
duplicated(df, i) ==
    \E j \in 1 .. (i - 1) : \A c \in Columns(df) : df[c].vals[j] = df[c].vals[i]

\* duplicated(keep=False).sum(): every row that has an equal, the first too
duplicated_sum_all(df) ==
    Cardinality({i \in 1 .. NumRows(df) :
                    \E j \in 1 .. NumRows(df) : j # i /\ RowAt(df, j) = RowAt(df, i)})

duplicated_sum(df) == Cardinality({i \in 1 .. NumRows(df) : duplicated(df, i)})

\* DataFrame.drop_duplicates(): keeps the first occurrence of every row
drop_duplicates(df) ==
    LET kept == SelectSeq(Iota(NumRows(df)), LAMBDA i : ~duplicated(df, i))
    IN  [c \in Columns(df) |->
            [dtype |-> df[c].dtype,
             vals |-> [k \in 1 .. Len(kept) |-> df[c].vals[kept[k]]]]]

\* sys.getsizeof of the Python object in an object cell
ObjectBytes(v) == IF isnull(v) THEN 24 ELSE 49 + Len(TextOf[v])

\* memory of one column under memory_usage(deep=True)
ColumnBytes(col) ==
    LET n == Len(col.vals)
    IN  CASE col.dtype \in {"int64", "float64", "datetime64"} -> 8 * n
          [] col.dtype \in {"int32", "float32"} -> 4 * n
          [] col.dtype = "int16" -> 2 * n
          [] col.dtype \in {"int8", "bool"} -> n
          [] col.dtype = "object" ->
                8 * n + SumSeq([i \in 1 .. n |-> ObjectBytes(col.vals[i])])
          [] col.dtype = "category" ->
                LET cats == SortedSet(Range(col.vals) \ {NA})
                IN  n + 8 * Len(cats)
                      + SumSeq([k \in 1 .. Len(cats) |-> ObjectBytes(cats[k])])

\* df.memory_usage(deep=True).sum(): the index term is positive for every
\* frame, also for one without rows
memory_usage(df) ==
    132 + SumSeq([c \in Columns(df) |-> ColumnBytes(df[c])])

\* the per-column entries of quality_report['missing_values']
missing_values(df) ==
    [c \in {k \in Columns(df) : null_count(df[k]) > 0} |->
        [count |-> null_count(df[c]),
         percentage |-> Percent2(null_count(df[c]), NumRows(df))]]

\* line 69 divides by len(df)
analyze_data_quality_raises(df) ==
    \E c \in Columns(df) : null_count(df[c]) > 0 /\ NumRows(df) = 0

analyze_data_quality(df) ==
    [total_rows |-> NumRows(df),
     total_columns |-> NumCols(df),
     missing_values |-> missing_values(df),
     duplicates |-> duplicated_sum(df),
     memory_usage |-> memory_usage(df)]

\* Series.fillna(v): a missing fill value fills nothing
fillna(col, v) ==
    [col EXCEPT !.vals = [i \in DOMAIN col.vals |->
                             IF isnull(col.vals[i]) THEN v ELSE col.vals[i]]]

\* handle_missing_column with the mean in place of the median
handle_missing_column_mean(col) ==
    IF null_count(col) > 0
    THEN IF is_numeric_dtype(col.dtype)
         THEN fillna(col, IF dropna(col) = <<>> THEN NA
                          ELSE SumSeq(dropna(col)) \div Len(dropna(col)))
         ELSE IF col.dtype = "object"
              THEN IF Len(mode(col)) > 0
                   THEN fillna(col, mode(col)[1])
                   ELSE fillna(col, Text("Unknown"))
              ELSE col
    ELSE col

\* lines 115-125 for one column; fillna(..., inplace=True) on the column
\* selected from the copy updates the copy (pandas without copy-on-write)
handle_missing_column(col) ==
    IF null_count(col) > 0
    THEN IF is_numeric_dtype(col.dtype)
         THEN fillna(col, median(col))
         ELSE IF col.dtype = "object"
              THEN IF Len(mode(col)) > 0
                   THEN fillna(col, mode(col)[1])
                   ELSE fillna(col, Text("Unknown"))
              ELSE col
    ELSE col

\* DataFrame.dropna() in place of the fills: rows with a missing cell go
handle_missing_values_dropna(df) ==
    LET kept == SelectSeq(Iota(NumRows(df)),
                          LAMBDA i : \A c \in Columns(df) : ~isnull(df[c].vals[i]))
    IN  [c \in Columns(df) |->
            [dtype |-> df[c].dtype,
             vals |-> [k \in 1 .. Len(kept) |-> df[c].vals[kept[k]]]]]

handle_missing_values(df) == [c \in Columns(df) |-> handle_missing_column(df[c])]

remove_duplicates(df) == drop_duplicates(df)

\* Series.min() / Series.max() of a column with at least one row
col_min(col) == CHOOSE v \in Range(col.vals) : \A w \in Range(col.vals) : v <= w
col_max(col) == CHOOSE v \in Range(col.vals) : \A w \in Range(col.vals) : v >= w

\* the integer branch: min() and max() of an empty column are NaN, and
\* every comparison with NaN is false
optimize_int_dtype(col) ==
    IF Len(col.vals) = 0 THEN "int64"
    ELSE IF col_min(col) > -128 /\ col_max(col) < 127 THEN "int8"
    ELSE IF col_min(col) > -32768 /\ col_max(col) < 32767 THEN "int16"
    ELSE IF col_min(col) > -2147483647 - 1 /\ col_max(col) < 2147483647 THEN "int32"
    ELSE "int64"

optimize_column(col) ==
    IF col.dtype = "int64"
    THEN [col EXCEPT !.dtype = optimize_int_dtype(col)]
    ELSE IF col.dtype = "float64"
    THEN [dtype |-> "float32",
          vals |-> [i \in DOMAIN col.vals |->
                       IF isnull(col.vals[i]) THEN NA ELSE Float32(col.vals[i])]]
    ELSE IF col.dtype = "object"
    THEN IF nunique(col) * 2 < Len(col.vals)      \* num_unique / num_total < 0.5
         THEN [col EXCEPT !.dtype = "category"]
         ELSE col
    ELSE col

\* line 176 divides two Python ints: ZeroDivisionError for an object column
\* of a frame without rows
optimize_dtypes_raises(df) ==
    \E c \in Columns(df) : df[c].dtype = "object" /\ Len(df[c].vals) = 0

optimized_frame(df) == [c \in Columns(df) |-> optimize_column(df[c])]

optimization_report(before, after) ==
    [memory_before |-> memory_usage(before),
     memory_after |-> memory_usage(after),
     memory_saved |-> memory_usage(before) - memory_usage(after),
     saved_percentage |->
         Percent2(memory_usage(before) - memory_usage(after), memory_usage(before))]

optimize_dtypes(df) ==
    [df |-> optimized_frame(df),
     report |-> optimization_report(df, optimized_frame(df))]

\* pd.to_datetime(df[col], errors='raise') returns: every present value is a
\* date string (missing values become NaT, an empty column converts)
parses_as_datetime(col) == \A v \in Range(col.vals) : isnull(v) \/ IsDateString(v)

\* lines 88-92: the datetime test, tried first and only on object storage;
\* `continue` keeps the column out of the later branches
in_datetime(df, c) == df[c].dtype = "object" /\ parses_as_datetime(df[c])

\* line 97
in_numeric(df, c) == ~in_datetime(df, c) /\ is_numeric_dtype(df[c].dtype)

\* line 101: only object storage reaches the ratio test
reaches_ratio_test(df, c) ==
    ~in_datetime(df, c) /\ ~is_numeric_dtype(df[c].dtype) /\ df[c].dtype = "object"

\* line 103: unique_ratio < 0.05 or nunique < 20
few_unique(df, c) ==
    nunique(df[c]) * 100 < 5 * NumRows(df) \/ nunique(df[c]) < 20

in_categorical(df, c) == reaches_ratio_test(df, c) /\ few_unique(df, c)
in_text(df, c) == reaches_ratio_test(df, c) /\ ~few_unique(df, c)

\* line 102 divides by len(df)
detect_column_types_raises(df) ==
    \E c \in Columns(df) : reaches_ratio_test(df, c) /\ NumRows(df) = 0

detect_column_types(df) ==
    [numeric |-> SelectSeq(Iota(NumCols(df)), LAMBDA c : in_numeric(df, c)),
     categorical |-> SelectSeq(Iota(NumCols(df)), LAMBDA c : in_categorical(df, c)),
     datetime |-> SelectSeq(Iota(NumCols(df)), LAMBDA c : in_datetime(df, c)),
     text |-> SelectSeq(Iota(NumCols(df)), LAMBDA c : in_text(df, c))]

\* the stages of auto_clean, each on the output of the one before
imputed(df) == handle_missing_values(df)
\* steps 2 and 3 swapped: duplicates dropped before imputation
deduplicated_before_imputing(df) == handle_missing_values(remove_duplicates(df))
deduplicated(df) == remove_duplicates(imputed(df))
narrowed(df) == optimize_dtypes(deduplicated(df)).df

auto_clean_raises(df) ==
    \/ analyze_data_quality_raises(df)
    \/ optimize_dtypes_raises(deduplicated(df))
    \/ detect_column_types_raises(narrowed(df))

\* auto_clean_report with the duplicates counted after the narrowing step
auto_clean_report_late_count(df) ==
    [quality |-> analyze_data_quality(df),
     duplicates_removed |->
         NumRows(imputed(df)) - NumRows(drop_duplicates(optimized_frame(imputed(df)))),
     optimization |-> optimize_dtypes(deduplicated(df)).report,
     column_types |-> detect_column_types(narrowed(df)),
     final_shape |-> <<NumRows(narrowed(df)), NumCols(narrowed(df))>>]

auto_clean_report(df) ==
    [quality |-> analyze_data_quality(df),
     duplicates_removed |-> NumRows(imputed(df)) - NumRows(drop_duplicates(imputed(df))),
     optimization |-> optimize_dtypes(deduplicated(df)).report,
     column_types |-> detect_column_types(narrowed(df)),
     final_shape |-> <<NumRows(narrowed(df)), NumCols(narrowed(df))>>]

\* what auto_clean returns when no step raises
auto_clean(df) == [df |-> narrowed(df), report |-> auto_clean_report(df)]

-----------------------------------------------------------------------------
(* Table objects.  A heap is the sequence of the DataFrame objects alive in
   a call, a reference a position in it; the caller's table is object 1.
   The operators above give the values, these say which object gets them. *)

\* df.copy(): a new object with the same contents
df_copy(heap, r) == [heap |-> Append(heap, heap[r]), ref |-> Len(heap) + 1]

\* handle_missing_values without line 112: the fills go to the argument
handle_missing_values_inplace(heap, r) ==
    [heap |-> [heap EXCEPT ![r] = handle_missing_values(@)], ref |-> r]

\* lines 112-127: the fills go to the copy, which is returned
handle_missing_values_obj(heap, r) ==
    LET c == df_copy(heap, r)
    IN  [heap |-> [c.heap EXCEPT ![c.ref] = handle_missing_values(@)], ref |-> c.ref]

\* line 131: drop_duplicates() returns a new object
remove_duplicates_obj(heap, r) ==
    [heap |-> Append(heap, drop_duplicates(heap[r])), ref |-> Len(heap) + 1]

\* lines 149-189: the casts are assigned to the columns of the copy
optimize_dtypes_obj(heap, r) ==
    LET c == df_copy(heap, r)
    IN  [heap |-> [c.heap EXCEPT ![c.ref] = optimized_frame(@)], ref |-> c.ref]

\* lines 201-213 on the caller's table; analyze_data_quality and
\* detect_column_types assign nothing to a table
auto_clean_obj(df) ==
    LET filled == handle_missing_values_obj(<<df>>, 1)
        unique == remove_duplicates_obj(filled.heap, filled.ref)
    IN  optimize_dtypes_obj(unique.heap, unique.ref)

\* the caller's table after auto_clean ran (or raised in step 4 or 5)
input_after_auto_clean(df) == auto_clean_obj(df).heap[1]

-----------------------------------------------------------------------------
(* The tables the core operations are exercised on *)

InputDtypes == {"int64", "float64", "object", "bool", "datetime64"}

\* int64 and bool storage cannot hold a missing value
CellDomain(dtype) ==
    CASE dtype = "int64" -> {1, 200}
      [] dtype = "float64" -> {NA, Pow2(25), Pow2(25) + 2}    \* NaN, 2^24, 2^24 + 1
      [] dtype = "object" -> {NA, Text("2024-01-15"), Text("a")}
      [] dtype = "bool" -> {0, 1}
      [] dtype = "datetime64" -> {NA, 1}

ColumnsOf(n) ==
    UNION {{[dtype |-> d, vals |-> v] : v \in [1 .. n -> CellDomain(d)]} :
              d \in InputDtypes}

\* further columns of a table: integer keys in rising order
KeyColumnsOf(n) ==
    {[dtype |-> "int64", vals |-> v] :
        v \in {w \in [1 .. n -> CellDomain("int64")] :
                  \A i \in 1 .. (n - 1) : w[i] <= w[i + 1]}}

\* tables of n rows and k columns: a column of any storage type, then keys
TablesOf(n, k) ==
    {<<c>> \o keys : c \in ColumnsOf(n), keys \in [1 .. (k - 1) -> KeyColumnsOf(n)]}

\* one object column of n rows holding k distinct words in turn
WordTable(k, n) ==
    <<[dtype |-> "object",
       vals |-> [i \in 1 .. n |-> Text("w01") + ((i - 1) % k)]]>>

\* tables around the thresholds of line 103 (20 distinct values, ratio 0.05)
ThresholdTables ==
    {WordTable(k, n) : k \in {19, 20, 21}, n \in {21, 399, 400, 401, 420, 421}}

\* the ends of the signed ranges of np.iinfo for 8, 16 and 32 bits, and
\* their neighbours
RangeEnds ==
    {-2147483647 - 1, -2147483647, -32769, -32768, -32767, -129, -128, -127,
     126, 127, 128, 32766, 32767, 32768, 2147483646, 2147483647}

\* one int64 column of two rows around the range ends (lines 158-166)
NarrowingTables ==
    {<<[dtype |-> "int64", vals |-> <<lo, hi>>]>> :
        lo \in {v \in RangeEnds : v < 0} \cup {1},
        hi \in {v \in RangeEnds : v > 0} \cup {1}}

\* a float column with one missing value and the present values 1 .. 8
\* (float cells hold twice the value)
MedianTable ==
    <<[dtype |-> "float64", vals |-> <<NA, 2, 4, 6, 8, 10, 12, 14, 16>>]>>

\* a float column whose median 1.0 is not its mean 4.0
SkewedTable ==
    <<[dtype |-> "float64", vals |-> <<2, NA, 2, 20>>]>>

\* a table on which every stage of auto_clean shows: a missing value whose
\* fill repeats a row, 2^24 and 2^24 + 1 that single precision cannot tell
\* apart, and a text column that narrowing turns into a category
StagesTable ==
    <<[dtype |-> "float64", vals |-> <<Pow2(25), Pow2(25) + 2, NA, Pow2(25), 2>>],
      [dtype |-> "object", vals |-> [i \in 1 .. 5 |-> Text("a")]]>>

InputTables ==
    UNION {TablesOf(n, k) : n \in 0 .. MaxRows, k \in 1 .. MaxCols}
        \cup ThresholdTables \cup NarrowingTables
        \cup {MedianTable, SkewedTable, StagesTable}

-----------------------------------------------------------------------------
(* Calls of the cleaning engine *)

Call(op, outcome) == Some([op |-> op, outcome |-> outcome])

InitSession ==
    /\ page = "upload"
    /\ df_original = None
    /\ df_cleaned = None
    /\ cleaning_report = None
    /\ cleaned_from = None

InitClean ==
    /\ InitSession
    /\ df_in \in InputTables
    /\ column = 0
    /\ ret = None
    /\ cleaner_report = None

\* cleaner.auto_clean(df): line 224 stores the report in the instance before
\* returning; a raise leaves the instance as it was.  df_in is the caller's
\* table object.
CallAutoClean ==
    /\ ret = None
    /\ IF auto_clean_raises(df_in)
       THEN /\ ret' = Call("auto_clean", Raised("ZeroDivisionError"))
            /\ UNCHANGED cleaner_report
       ELSE /\ ret' = Call("auto_clean", Returned(auto_clean(df_in)))
            /\ cleaner_report' = Some(auto_clean(df_in).report)
    /\ df_in' = input_after_auto_clean(df_in)
    /\ UNCHANGED <<column, session_vars>>

\* cleaner.detect_column_types(df) on its own
CallDetectColumnTypes ==
    /\ ret = None
    /\ ret' = Call("detect_column_types",
                   IF detect_column_types_raises(df_in)
                   THEN Raised("ZeroDivisionError")
                   ELSE Returned(detect_column_types(df_in)))
    /\ UNCHANGED <<df_in, column, cleaner_report, session_vars>>

\* cleaner.optimize_dtypes(df) on its own
CallOptimizeDtypes ==
    /\ ret = None
    /\ ret' = Call("optimize_dtypes",
                   IF optimize_dtypes_raises(df_in)
                   THEN Raised("ZeroDivisionError")
                   ELSE Returned(optimize_dtypes(df_in)))
    /\ UNCHANGED <<df_in, column, cleaner_report, session_vars>>

\* cleaner.analyze_data_quality(df) on its own; it assigns nothing to df
CallAnalyzeDataQuality ==
    /\ ret = None
    /\ ret' = Call("analyze_data_quality",
                   IF analyze_data_quality_raises(df_in)
                   THEN Raised("ZeroDivisionError")
                   ELSE Returned(analyze_data_quality(df_in)))
    /\ UNCHANGED <<df_in, column, cleaner_report, session_vars>>

\* cleaner.handle_missing_values(df) on its own
CallHandleMissingValues ==
    /\ ret = None
    /\ ret' = Call("handle_missing_values", Returned(handle_missing_values(df_in)))
    /\ UNCHANGED <<df_in, column, cleaner_report, session_vars>>

\* the cleaned table is given to auto_clean again
RunAgain ==
    /\ ret # None
    /\ ret.val.op = "auto_clean"
    /\ ~ret.val.outcome.raised
    /\ df_in' = ret.val.outcome.value.df
    /\ ret' = None
    /\ UNCHANGED <<column, cleaner_report, session_vars>>

NextClean ==
    \/ CallAutoClean
    \/ CallDetectColumnTypes
    \/ CallOptimizeDtypes
    \/ CallHandleMissingValues
    \/ CallAnalyzeDataQuality
    \/ RunAgain

SpecClean == InitClean /\ [][NextClean]_vars

-----------------------------------------------------------------------------
(* DataAnalyzer (analyzer.py) *)

\* df.select_dtypes(include=[np.number]).columns: integer and floating
\* storage, in column order; boolean storage is not np.number
is_number_dtype(dtype) == is_numeric_dtype(dtype) /\ dtype # "bool"

number_columns(df) ==
    SelectSeq(Iota(NumCols(df)), LAMBDA c : is_number_dtype(df[c].dtype))

\* the rows on which both columns are present (corr drops the others)
PairRows(df, a, b) ==
    SelectSeq(Iota(NumRows(df)),
              LAMBDA i : ~isnull(df[a].vals[i]) /\ ~isnull(df[b].vals[i]))

\* Pearson correlation of columns a and b as the exact pair (cov, var):
\* r = cov / sqrt(var), undefined (NaN) when var = 0
corr(df, a, b) ==
    LET rows == PairRows(df, a, b)
        n == Len(rows)
        x == [k \in 1 .. n |-> df[a].vals[rows[k]]]
        y == [k \in 1 .. n |-> df[b].vals[rows[k]]]
        sx == SumSeq(x)
        sy == SumSeq(y)
        sxy == SumSeq([k \in 1 .. n |-> x[k] * y[k]])
        sxx == SumSeq([k \in 1 .. n |-> x[k] * x[k]])
        syy == SumSeq([k \in 1 .. n |-> y[k] * y[k]])
    IN  [cov |-> n * sxy - sx * sy,
         var |-> (n * sxx - sx * sx) * (n * syy - sy * sy)]

\* abs(corr_value) > 0.7; a comparison with NaN is false
is_strong(r) == r.var > 0 /\ 100 * r.cov * r.cov > 49 * r.var

\* floor(4000000 * p / q) for 0 <= p <= q < 1000000, in two divisions so
\* that no product leaves 32 bits
Floor4M(p, q) ==
    LET d == (2000 * p) \div q
        r == (2000 * p) % q
    IN  2000 * d + (2000 * r) \div q

\* the largest t in lo .. hi with t * t <= f, by bisection
RECURSIVE isqrt(_, _, _)
isqrt(f, lo, hi) ==
    IF lo = hi THEN lo
    ELSE LET mid == (lo + hi + 1) \div 2
         IN  IF mid * mid <= f THEN isqrt(f, mid, hi) ELSE isqrt(f, lo, mid - 1)

\* round(corr_value, 3), held in thousandths: the whole number nearest to
\* 1000 * cov / sqrt(var), a tie going to the even one.  The correlation
\* is the exact real number, not its double-precision approximation.
round3(r) ==
    LET p == r.cov * r.cov
        f == Floor4M(p, r.var)
        exact == (2000 * ((2000 * p) % r.var)) % r.var = 0
        m == (isqrt(f, 0, 2000) + 1) \div 2    \* (2m - 1)^2 <= f < (2m + 1)^2
        tie == m > 0 /\ exact /\ f = (2 * m - 1) * (2 * m - 1)
        n == IF tie /\ m % 2 = 1 THEN m - 1 ELSE m
    IN  IF r.cov < 0 THEN -n ELSE n

\* lines 80-89: the pairs i < j of the matrix, row by row; the loop starts
\* at the pair (1, 2)
strong_pair(df, a, b) ==
    [var1 |-> a, var2 |-> b, correlation |-> round3(corr(df, a, b))]

\* the inner loop running over every j instead of j > i
RECURSIVE strong_pairs_all(_, _, _, _)
strong_pairs_all(df, cols, i, j) ==
    IF i > Len(cols) THEN <<>>
    ELSE IF j > Len(cols) THEN strong_pairs_all(df, cols, i + 1, 1)
    ELSE (IF is_strong(corr(df, cols[i], cols[j]))
          THEN <<strong_pair(df, cols[i], cols[j])>>
          ELSE <<>>)
         \o strong_pairs_all(df, cols, i, j + 1)

RECURSIVE strong_pairs_from(_, _, _, _)
strong_pairs_from(df, cols, i, j) ==
    IF i > Len(cols) THEN <<>>
    ELSE IF j > Len(cols) THEN strong_pairs_from(df, cols, i + 1, i + 2)
    ELSE (IF is_strong(corr(df, cols[i], cols[j]))
          THEN <<strong_pair(df, cols[i], cols[j])>>
          ELSE <<>>)
         \o strong_pairs_from(df, cols, i, j + 1)

correlation_matrix(df, cols) ==
    [p \in {<<cols[i], cols[j]>> : i, j \in DOMAIN cols} |-> corr(df, p[1], p[2])]

\* the second component of what correlation_analysis returns
strong_correlations(df) ==
    IF Len(number_columns(df)) < 2 THEN <<>>
    ELSE strong_pairs_from(df, number_columns(df), 1, 2)

correlation_analysis(df) ==
    IF Len(number_columns(df)) < 2
    THEN [matrix |-> <<>>, strong |-> <<>>]
    ELSE [matrix |-> correlation_matrix(df, number_columns(df)),
          strong |-> strong_correlations(df)]

\* Series.quantile(q) for q = num/4 with linear interpolation, times 4
quantile_x4(s, num) ==
    LET h == num * (Len(s) - 1)
        k == h \div 4
        r == h % 4
    IN  IF r = 0 THEN 4 * s[k + 1]
        ELSE 4 * s[k + 1] + r * (s[k + 2] - s[k + 1])

\* distribution_summary with the fences counted as outliers (<= and >=)
distribution_summary_inclusive(data) ==
    LET s == Sorted(data)
        Q1 == quantile_x4(s, 1)
        Q3 == quantile_x4(s, 3)
        IQR == Q3 - Q1
        lower8 == 2 * Q1 - 3 * IQR
        upper8 == 2 * Q3 + 3 * IQR
        outliers == SelectSeq(data, LAMBDA v : 8 * v <= lower8 \/ 8 * v >= upper8)
    IN  [outliers_count |-> Len(outliers),
         outliers_percentage |-> Percent2(Len(outliers), Len(data)),
         Q1 |-> Q1, Q3 |-> Q3, IQR |-> IQR]

\* lines 131-151 for the present values of the column.  Q1, Q3 and IQR are
\* held times 4, the percentage in hundredths.  skewness, kurtosis and
\* is_normal are computed by scipy inside try/except and are not part of
\* this record.
distribution_summary(data) ==
    LET s == Sorted(data)
        Q1 == quantile_x4(s, 1)
        Q3 == quantile_x4(s, 3)
        IQR == Q3 - Q1
        lower8 == 2 * Q1 - 3 * IQR
        upper8 == 2 * Q3 + 3 * IQR
        outliers == SelectSeq(data, LAMBDA v : 8 * v < lower8 \/ 8 * v > upper8)
    IN  [outliers_count |-> Len(outliers),
         outliers_percentage |-> Percent2(Len(outliers), Len(data)),
         Q1 |-> Q1, Q3 |-> Q3, IQR |-> IQR]

\* line 100: the column is absent or not numeric
distribution_misuse(df, col) ==
    col \notin Columns(df) \/ ~is_numeric_dtype(df[col].dtype)

\* what distribution_analysis can do.  {} is the empty function.  The
\* quantile of boolean storage returns or raises TypeError depending on the
\* pandas / numpy build.
distribution_analysis(df, col) ==
    IF distribution_misuse(df, col) THEN {Returned(<<>>)}
    ELSE IF Len(dropna(df[col])) < 3 THEN {Returned(<<>>)}
    ELSE IF df[col].dtype = "bool"
         THEN {Raised("TypeError"), Returned(distribution_summary(dropna(df[col])))}
         ELSE {Returned(distribution_summary(dropna(df[col])))}

\* DataCleaner.detect_outliers, lines 138-145 of data_cleaner.py: one flag
\* per row.  The quantile of a column without a present value is NaN and
\* every comparison with NaN (a NaN fence, a missing cell) is false.
outlier_flags(col) ==
    LET data == dropna(col)
        s == Sorted(data)
        Q1 == quantile_x4(s, 1)
        Q3 == quantile_x4(s, 3)
        IQR == Q3 - Q1
        lower8 == 2 * Q1 - 3 * IQR
        upper8 == 2 * Q3 + 3 * IQR
    IN  [i \in DOMAIN col.vals |->
            /\ Len(data) > 0
            /\ ~isnull(col.vals[i])
            /\ (8 * col.vals[i] < lower8 \/ 8 * col.vals[i] > upper8)]

\* what detect_outliers can do: df[column] of an absent column raises
\* KeyError; a column that is not numeric gets no flag; the quantile of
\* boolean storage returns or raises as in distribution_analysis
detect_outliers(df, col) ==
    IF col \notin Columns(df) THEN {Raised("KeyError")}
    ELSE IF ~is_numeric_dtype(df[col].dtype)
         THEN {Returned([i \in 1 .. NumRows(df) |-> FALSE])}
    ELSE IF df[col].dtype = "bool" /\ Len(df[col].vals) > 0
         THEN {Raised("TypeError"), Returned(outlier_flags(df[col]))}
         ELSE {Returned(outlier_flags(df[col]))}

\* Series.value_counts(): the present values by falling count, values of
\* equal count in order of first appearance
first_index(col, v) == CHOOSE i \in DOMAIN col.vals :
    col.vals[i] = v /\ \A j \in 1 .. (i - 1) : col.vals[j] # v

RECURSIVE counts_order(_, _)
counts_order(col, S) ==
    IF S = {} THEN <<>>
    ELSE LET v == CHOOSE x \in S : \A y \in S :
                     \/ Count(col, x) > Count(col, y)
                     \/ /\ Count(col, x) = Count(col, y)
                        /\ first_index(col, x) <= first_index(col, y)
         IN  <<v>> \o counts_order(col, S \ {v})

value_counts(col) == counts_order(col, Range(col.vals) \ {NA})

\* categorical_analysis with the guard `if len(value_counts) > 0` left out:
\* index[0] of an empty index raises
categorical_analysis_unguarded(df, col) ==
    IF col \notin Columns(df) THEN Returned(<<>>)
    ELSE IF Len(value_counts(df[col])) = 0 THEN Raised("IndexError")
    ELSE LET vc == value_counts(df[col])
         IN  Returned(
               [unique_count |-> Len(vc),
                most_common |-> Some(vc[1]),
                most_common_count |-> Count(df[col], vc[1]),
                most_common_pct |-> Percent2(Count(df[col], vc[1]), NumRows(df)),
                value_counts |-> [v \in Range(vc) |-> Count(df[col], v)]])

categorical_analysis(df, col) ==
    IF col \notin Columns(df) THEN Returned(<<>>)
    ELSE LET vc == value_counts(df[col])
         IN  Returned(
               [unique_count |-> Len(vc),
                most_common |-> IF Len(vc) > 0 THEN Some(vc[1]) ELSE None,
                most_common_count |->
                    IF Len(vc) > 0 THEN Count(df[col], vc[1]) ELSE 0,
                most_common_pct |->
                    IF Len(vc) > 0
                    THEN Percent2(Count(df[col], vc[1]), NumRows(df))
                    ELSE 0,
                value_counts |-> [v \in Range(vc) |-> Count(df[col], v)]])

\* s[:n]
Prefix(s, n) == SubSeq(s, 1, IF n < Len(s) THEN n ELSE Len(s))

\* one insight string, by its parts: the kind of sentence and the values
\* formatted into it (0 and "" for the parts a kind does not have)
Insight(kind, col, col2, value, direction, most_common) ==
    [kind |-> kind, col |-> col, col2 |-> col2, value |-> value,
     direction |-> direction, most_common |-> most_common]

\* lines 178-194 for one numeric column.  scipy[col] is what scipy.stats
\* makes of the column: skewness as round(skewness, 3) in thousandths and
\* the verdict is_normal (both after the try/except of lines 110-129).
\* `if dist_info` skips the empty result.
column_insights(df, col, scipy) ==
    IF distribution_misuse(df, col) \/ Len(dropna(df[col])) < 3 THEN <<>>
    ELSE LET d == distribution_summary(dropna(df[col]))
             skewness == scipy[col].skewness
         IN  (IF d.outliers_percentage > 500
              THEN <<Insight("outlier", col, 0, d.outliers_percentage, "", 0)>>
              ELSE <<>>)
             \o (IF Abs(skewness) > 1000
                 THEN <<Insight("skew", col, 0, skewness,
                                IF skewness > 0 THEN "right" ELSE "left", 0)>>
                 ELSE <<>>)
             \o (IF scipy[col].is_normal
                 THEN <<Insight("normal", col, 0, 0, "", 0)>>
                 ELSE <<>>)

RECURSIVE numeric_insights(_, _, _, _)
numeric_insights(df, cols, k, scipy) ==
    IF k > Len(cols) THEN <<>>
    ELSE column_insights(df, cols[k], scipy) \o numeric_insights(df, cols, k + 1, scipy)

\* lines 197-201
correlation_insights(strong) ==
    [k \in DOMAIN strong |->
        Insight("correlation", strong[k].var1, strong[k].var2,
                strong[k].correlation, "", 0)]

\* lines 205-211 for one categorical column: `if cat_info` skips the empty
\* result of an absent column
category_insights(df, col) ==
    IF col \notin Columns(df) THEN <<>>
    ELSE LET cat_info == categorical_analysis(df, col).value
         IN  IF cat_info.most_common_pct > 5000
             THEN <<Insight("dominant", col, 0, cat_info.most_common_pct, "",
                            cat_info.most_common.val)>>
             ELSE <<>>

RECURSIVE categorical_insights(_, _, _)
categorical_insights(df, cols, k) ==
    IF k > Len(cols) THEN <<>>
    ELSE category_insights(df, cols[k]) \o categorical_insights(df, cols, k + 1)

\* generate_insights with the slices [:5], [:3], [:3] left out
insights_uncapped(df, column_types, scipy) ==
    numeric_insights(df, column_types.numeric, 1, scipy)
      \o correlation_insights(strong_correlations(df))
      \o categorical_insights(df, column_types.categorical, 1)

\* the list generate_insights returns when no call inside it raises
insights(df, column_types, scipy) ==
    numeric_insights(df, Prefix(column_types.numeric, 5), 1, scipy)
      \o correlation_insights(Prefix(strong_correlations(df), 3))
      \o categorical_insights(df, Prefix(column_types.categorical, 3), 1)

\* what generate_insights can do: distribution_analysis may raise on a
\* boolean column (see distribution_analysis)
generate_insights(df, column_types, scipy) ==
    {Returned(insights(df, column_types, scipy))}
      \cup IF \E k \in DOMAIN Prefix(column_types.numeric, 5) :
                 Raised("TypeError") \in
                     distribution_analysis(df, column_types.numeric[k])
           THEN {Raised("TypeError")}
           ELSE {}

-----------------------------------------------------------------------------
(* DataVisualizer (visualizer.py) *)

\* plot_correlation_heatmap: None with fewer than 2 np.number columns in the
\* table, else a figure
plot_correlation_heatmap(df) ==
    IF Len(number_columns(df)) < 2 THEN None ELSE Some("correlation_heatmap")

\* one entry of the dictionary of figures, by the key's prefix and the
\* columns plotted (0 for none)
Chart(kind, col, col2) == [kind |-> kind, col |-> col, col2 |-> col2]

\* lines 276-307: the entries of the dictionary in insertion order.  A
\* figure is truthy, so `if heatmap` tests for None.
create_auto_visualizations(df, column_types) ==
    LET numeric_cols == column_types.numeric
        categorical_cols == column_types.categorical
        datetime_cols == column_types.datetime
        shown == SelectSeq(Prefix(categorical_cols, 4),
                           LAMBDA c : nunique(df[c]) <= 20)
    IN  [k \in DOMAIN Prefix(numeric_cols, 6) |-> Chart("hist", numeric_cols[k], 0)]
          \o (IF Len(numeric_cols) >= 2 /\ plot_correlation_heatmap(df) # None
              THEN <<Chart("correlation_heatmap", 0, 0)>>
              ELSE <<>>)
          \o [k \in DOMAIN shown |-> Chart("bar", shown[k], 0)]
          \o (IF Len(datetime_cols) > 0 /\ Len(numeric_cols) > 0
              THEN <<Chart("time_series", datetime_cols[1], numeric_cols[1])>>
              ELSE <<>>)

-----------------------------------------------------------------------------
(* Calls of the analyzer *)

AnalyzeDtypes == {"int64", "float64", "object", "bool"}

AnalyzeDomain(dtype) ==
    CASE dtype = "int64" -> {1, 3}
      [] dtype = "float64" -> {NA, 2, 6}                       \* NaN, 1.0, 3.0
      [] dtype = "object" -> {NA, Text("a"), Text("w01")}
      [] dtype = "bool" -> {0, 1}

AnalyzeColumnsOf(n) ==
    UNION {{[dtype |-> d, vals |-> v] : v \in [1 .. n -> AnalyzeDomain(d)]} :
              d \in AnalyzeDtypes}

\* further columns: a constant, a rising and a falling integer column
RampColumnsOf(n) ==
    {[dtype |-> "int64", vals |-> [i \in 1 .. n |-> 1]],
     [dtype |-> "int64", vals |-> [i \in 1 .. n |-> i]],
     [dtype |-> "int64", vals |-> [i \in 1 .. n |-> n + 1 - i]]}

AnalyzeTablesOf(n, k) ==
    {<<c>> \o more : c \in AnalyzeColumnsOf(n),
                     more \in [1 .. (k - 1) -> RampColumnsOf(n)]}

\* integer columns of five rows; <<1, 3, 4, 2, 5>> has correlation 0.7
\* with <<1, 2, 3, 4, 5>> exactly
PairColumns ==
    {[dtype |-> "int64", vals |-> v] :
        v \in {<<1, 2, 3, 4, 5>>, <<1, 3, 4, 2, 5>>, <<2, 4, 6, 8, 10>>,
               <<5, 4, 3, 2, 1>>, <<1, 1, 1, 1, 1>>, <<1, 2, 1, 2, 1>>}}

\* tables of three numeric columns, for the pair loop of lines 80-89
PairTables == [1 .. 3 -> PairColumns]

\* one numeric column with a value on, next to or far from a fence of the
\* IQR rule; float cells hold twice the value
OutlierTables ==
    {<<[dtype |-> "int64", vals |-> v]>> :
        v \in {<<10, 12, 11, 13, 10, 1000>>,
               <<0, 0, 2, 2, 5>>, <<0, 0, 2, 2, 6>>,
               <<-3, 0, 0, 2, 2>>, <<-4, 0, 0, 2, 2>>}}
      \cup {<<[dtype |-> "float64", vals |-> v]>> :
               v \in {<<NA, 0, 0, 4, 4, 10>>, <<11, NA, 0, 0, 4, 4>>}}

AnalyzeTables ==
    UNION {AnalyzeTablesOf(n, k) : n \in 0 .. MaxRows, k \in 1 .. MaxCols}
        \cup PairTables \cup OutlierTables

\* the column names a caller may pass: those of the table and one more
ColumnArgs == 1 .. (MaxCols + 1)

InitAnalyze ==
    /\ InitSession
    /\ df_in \in AnalyzeTables
    /\ column = 0
    /\ ret = None
    /\ cleaner_report = None

CallCorrelationAnalysis ==
    /\ ret = None
    /\ ret' = Call("correlation_analysis", Returned(correlation_analysis(df_in)))
    /\ UNCHANGED <<df_in, column, cleaner_report, session_vars>>

CallDistributionAnalysis(c) ==
    /\ ret = None
    /\ column' = c
    /\ \E outcome \in distribution_analysis(df_in, c) :
          ret' = Call("distribution_analysis", outcome)
    /\ UNCHANGED <<df_in, cleaner_report, session_vars>>

CallCategoricalAnalysis(c) ==
    /\ ret = None
    /\ column' = c
    /\ ret' = Call("categorical_analysis", categorical_analysis(df_in, c))
    /\ UNCHANGED <<df_in, cleaner_report, session_vars>>

\* cleaner.detect_outliers(df, column)
CallDetectOutliers(c) ==
    /\ ret = None
    /\ column' = c
    /\ \E outcome \in detect_outliers(df_in, c) :
          ret' = Call("detect_outliers", outcome)
    /\ UNCHANGED <<df_in, cleaner_report, session_vars>>

NextAnalyze ==
    \/ CallCorrelationAnalysis
    \/ \E c \in ColumnArgs : CallDetectOutliers(c)
    \/ \E c \in ColumnArgs : CallDistributionAnalysis(c)
    \/ \E c \in ColumnArgs : CallCategoricalAnalysis(c)

SpecAnalyze == InitAnalyze /\ [][NextAnalyze]_vars

-----------------------------------------------------------------------------
(* Insight generation: generate_insights on its own and as show_cleaning_page
   runs it, on the cleaned table with the report's column-type map *)

\* numeric columns of six rows: a ramp, one with an outlier (9 lies above
\* the fence 4.25), a falling ramp, one with fewer than 3 present values
NumericPool ==
    <<[dtype |-> "int64", vals |-> <<1, 2, 3, 4, 5, 6>>],
      [dtype |-> "int64", vals |-> <<0, 0, 2, 2, 2, 9>>],
      [dtype |-> "int64", vals |-> <<6, 5, 4, 3, 2, 1>>],
      [dtype |-> "float64", vals |-> <<NA, 2, 4, NA, NA, NA>>]>>

\* text columns of six rows whose most frequent value has a share of
\* 50, 66.67 and 16.67 percent
CategoryPool ==
    <<[dtype |-> "object",
       vals |-> <<Text("a"), Text("a"), Text("a"), Text("w01"), Text("w01"), Text("w02")>>],
      [dtype |-> "object",
       vals |-> <<Text("a"), Text("a"), Text("a"), Text("a"), Text("w01"), Text("w02")>>],
      [dtype |-> "object", vals |-> <<Text("a"), NA, NA, NA, NA, NA>>]>>

\* kn numeric and kc text columns, taken from the pools in turn from v on
WideTable(kn, kc, v, numeric_first) ==
    LET nums == [i \in 1 .. kn |-> NumericPool[((i + v) % Len(NumericPool)) + 1]]
        cats == [i \in 1 .. kc |-> CategoryPool[((i + v) % Len(CategoryPool)) + 1]]
    IN  IF numeric_first THEN nums \o cats ELSE cats \o nums

BoolTable == <<[dtype |-> "bool", vals |-> <<0, 1, 1, 0, 1, 1>>]>>

\* 100 rows: the text column city with 3 distinct values, one of them 60
\* times, and a row number that keeps the rows distinct
CityTable ==
    <<[dtype |-> "object",
       vals |-> [i \in 1 .. 100 |->
                    IF i <= 60 THEN Text("a")
                    ELSE IF i <= 80 THEN Text("w01") ELSE Text("w02")]],
      [dtype |-> "int64", vals |-> [i \in 1 .. 100 |-> i]]>>

\* tables for the chart selection: a boolean next to an integer column, a
\* column of date strings next to an integer column, and a text column
\* of 20 and of 21 distinct values in enough rows to be categorical
ChartTables ==
    {BoolTable \o <<NumericPool[1]>>,
     <<[dtype |-> "object", vals |-> [i \in 1 .. 6 |-> Text("2024-01-15")]],
       NumericPool[1]>>,
     WordTable(20, 401), WordTable(21, 421)}

InsightTables ==
    {WideTable(kn, kc, v, f) :
        kn \in 0 .. WideNumeric, kc \in 0 .. WideCategorical,
        v \in 1 .. Len(NumericPool), f \in BOOLEAN}
      \cup {BoolTable, CityTable} \cup ChartTables

\* what scipy.stats can make of one column
ScipyResults ==
    {[skewness |-> -1001, is_normal |-> FALSE], [skewness |-> 1000, is_normal |-> FALSE],
     [skewness |-> 1000, is_normal |-> TRUE], [skewness |-> 1001, is_normal |-> TRUE]}

\* one result for the columns at odd positions, one for those at even ones
ScipyOf(df) ==
    {[c \in Columns(df) |-> IF c % 2 = 1 THEN a ELSE b] : a, b \in ScipyResults}

InitInsights ==
    /\ InitSession
    /\ df_in \in InsightTables
    /\ column = 0
    /\ ret = None
    /\ cleaner_report = None

CallWith(op, args, outcome) == Some([op |-> op, outcome |-> outcome, args |-> args])

\* analyzer.generate_insights(df, column_types) with the column-type map of
\* the table itself
CallGenerateInsights ==
    /\ ret = None
    /\ ~detect_column_types_raises(df_in)
    /\ \E scipy \in ScipyOf(df_in) :
         \E outcome \in generate_insights(df_in, detect_column_types(df_in), scipy) :
            ret' = CallWith("generate_insights",
                            [df |-> df_in,
                             column_types |-> detect_column_types(df_in),
                             scipy |-> scipy],
                            outcome)
    /\ UNCHANGED <<df_in, column, cleaner_report, session_vars>>

\* show_cleaning_page, lines 209-235 of app.py, after auto_clean returned:
\* generate_insights(df_cleaned, report['column_types'])
ShowInsights ==
    /\ ret # None
    /\ ret.val.op = "auto_clean"
    /\ ~ret.val.outcome.raised
    /\ LET cleaned == ret.val.outcome.value.df
           report == ret.val.outcome.value.report
       IN  \E scipy \in ScipyOf(cleaned) :
            \E outcome \in generate_insights(cleaned, report.column_types, scipy) :
               ret' = CallWith("show_insights",
                               [df |-> cleaned,
                                column_types |-> report.column_types,
                                scipy |-> scipy],
                               outcome)
    /\ UNCHANGED <<df_in, column, cleaner_report, session_vars>>

\* visualizer.create_auto_visualizations(df, column_types) with the
\* column-type map of the table itself
CallCreateAutoVisualizations ==
    /\ ret = None
    /\ ~detect_column_types_raises(df_in)
    /\ ret' = CallWith("create_auto_visualizations",
                       [df |-> df_in, column_types |-> detect_column_types(df_in)],
                       Returned(create_auto_visualizations(
                                    df_in, detect_column_types(df_in))))
    /\ UNCHANGED <<df_in, column, cleaner_report, session_vars>>

NextInsights ==
    \/ CallGenerateInsights
    \/ CallCreateAutoVisualizations
    \/ CallAutoClean
    \/ ShowInsights

SpecInsights == InitInsights /\ [][NextInsights]_vars

-----------------------------------------------------------------------------
(* DataLoader (data_loader.py) *)

\* max_size of validate_file_size: 50 MB in bytes
max_size == 50 * 1024 * 1024

\* validate_file_size that also turns away a file of exactly max_size
validate_file_size_exclusive(file) == file.size < max_size

validate_file_size(file) == ~(file.size > max_size)

\* A file name is the sequence of its characters.
\* str.lower() on the letters that occur in the names
LowerOf(ch) ==
    CASE ch = "C" -> "c"
      [] ch = "S" -> "s"
      [] ch = "V" -> "v"
      [] OTHER -> ch

lower(name) == [i \in DOMAIN name |-> LowerOf(name[i])]

\* name.split('.')[-1]: what follows the last dot, the whole name when it
\* has no dot
last_part(name) ==
    LET dots == {i \in DOMAIN name : name[i] = "."}
        last == IF dots = {} THEN 0
                ELSE CHOOSE i \in dots : \A j \in dots : j <= i
    IN  SubSeq(name, last + 1, Len(name))

\* line 79
file_extension(file) == lower(last_part(file.name))

csv == <<"c", "s", "v">>
xlsx == <<"x", "l", "s", "x">>
xls == <<"x", "l", "s">>

\* what pd.read_csv / pd.read_excel make of the file: a table, or None when
\* the read raises
load_file(file) ==
    IF ~validate_file_size(file) THEN None
    ELSE IF file_extension(file) = csv
         THEN file.parsed            \* None: the except branch of line 93
         ELSE IF file_extension(file) \in {xlsx, xls}
              THEN file.parsed
              ELSE None

\* the tables a session uploads: one column, up to SessionRows rows
SessionTables == UNION {TablesOf(n, 1) : n \in 0 .. SessionRows}

\* names with the extensions st.file_uploader(type=['csv', 'xlsx', 'xls'])
\* offers, in either case, and names load_file turns away at line 88
FileNames ==
    {<<"d", ".">> \o csv, <<"d", ".", "C", "S", "V">>, <<"d", ".">> \o xlsx,
     <<"d", ".">> \o xls, <<"d", ".", "t", "x", "t">>,
     <<"d", ".">> \o csv \o <<".", "t", "x", "t">>}

\* the content of the files that are not named d.csv
SampleTable == <<[dtype |-> "int64", vals |-> <<>>]>>

\* files of exactly max_size and one byte more, readable or not: every
\* session table as d.csv, the sample table under the other names
Files ==
    {[size |-> s, name |-> <<"d", ".">> \o csv, parsed |-> p] :
        s \in {max_size, max_size + 1},
        p \in {None} \cup {Some(t) : t \in SessionTables}}
    \cup
    {[size |-> s, name |-> n, parsed |-> p] :
        s \in {max_size, max_size + 1},
        n \in FileNames,
        p \in {None, Some(SampleTable)}}

-----------------------------------------------------------------------------
(* The Streamlit session (app.py) *)

Pages == {"upload", "cleaning", "visualization", "export"}

InitCore ==
    /\ df_in = <<>>
    /\ column = 0
    /\ ret = None
    /\ cleaner_report = None

Init == InitSession /\ InitCore

\* the sidebar radio selects a section; the script reruns and renders it.
\* The result of load_file is a local of the run that made it and is gone.
Navigate(p) ==
    /\ p # page
    /\ page' = p
    /\ ret' = None
    /\ UNCHANGED <<df_original, df_cleaned, cleaning_report, cleaned_from,
                   df_in, column, cleaner_report>>

\* show_upload_page with a file in the uploader: lines 148-153; ret keeps
\* the load_file call, its argument by size and name
Upload(file) ==
    /\ page = "upload"
    /\ ret' = CallWith("load_file", [size |-> file.size, name |-> file.name],
                       Returned(load_file(file)))
    /\ IF load_file(file) # None
       THEN df_original' = load_file(file)
       ELSE UNCHANGED df_original
    /\ UNCHANGED <<page, df_cleaned, cleaning_report, cleaned_from,
                   df_in, column, cleaner_report>>

\* PressClean with line 205 left out: the report is not stored
PressClean_ReportNotStored ==
    /\ page = "cleaning"
    /\ df_original # None
    /\ df_cleaned = None
    /\ IF auto_clean_raises(df_original.val)
       THEN UNCHANGED <<df_cleaned, cleaned_from>>
       ELSE /\ df_cleaned' = Some(auto_clean(df_original.val).df)
            /\ cleaned_from' = df_original
    /\ df_original' = Some(input_after_auto_clean(df_original.val))
    /\ UNCHANGED <<page, cleaning_report, core_vars>>

\* show_cleaning_page, the button pressed: lines 185-206.  An exception of
\* auto_clean ends the script run before line 204.  The session's original
\* table is the object given to auto_clean (line 189).
PressClean ==
    /\ page = "cleaning"
    /\ df_original # None
    /\ df_cleaned = None
    /\ IF auto_clean_raises(df_original.val)
       THEN UNCHANGED <<df_cleaned, cleaning_report, cleaned_from>>
       ELSE /\ df_cleaned' = Some(auto_clean(df_original.val).df)
            /\ cleaning_report' = Some(auto_clean(df_original.val).report)
            /\ cleaned_from' = df_original
    /\ df_original' = Some(input_after_auto_clean(df_original.val))
    /\ UNCHANGED <<page, core_vars>>

\* What a script run puts on the page, as the set of its parts; TypeError
\* stands for subscripting a report that is None.
\* show_cleaning_page, lines 185-245
show_cleaning_page(original, cleaned, report) ==
    IF original = None THEN {"warning"}
    ELSE (IF cleaned = None THEN {"clean_button"} ELSE {})
           \cup (IF cleaned # None
                 THEN IF report = None THEN {"TypeError"}
                      ELSE {"report", "statistics", "correlation", "insights",
                            "preview"}
                 ELSE {})

\* show_visualization_page without the guard of lines 251-253
show_visualization_page_unguarded(cleaned, report) ==
    IF report = None THEN {"TypeError"} ELSE {"charts", "custom_chart"}

\* show_visualization_page, lines 251-262
show_visualization_page(cleaned, report) ==
    IF cleaned = None THEN {"warning"}
    ELSE IF report = None THEN {"TypeError"}
    ELSE {"charts", "custom_chart"}

\* show_export_page, lines 325-385: the download button comes before the
\* summary reads the report
show_export_page(cleaned, report) ==
    IF cleaned = None THEN {"warning"}
    ELSE {"download"} \cup (IF report = None THEN {"TypeError"} ELSE {"summary"})

\* the page routing of main, lines 119-129
page_routing(p, original, cleaned, report) ==
    CASE p = "upload" -> {"uploader"}
      [] p = "cleaning" -> show_cleaning_page(original, cleaned, report)
      [] p = "visualization" -> show_visualization_page(cleaned, report)
      [] p = "export" -> show_export_page(cleaned, report)

Next ==
    \/ \E p \in Pages : Navigate(p)
    \/ \E file \in Files : Upload(file)
    \/ PressClean

Spec == Init /\ [][Next]_vars

-----------------------------------------------------------------------------
(* Properties of the session *)

\* C1: whenever a cleaned table is present, it and the report are what
\* auto_clean makes of the current original table (an upload of a new file
\* discards the cleaned table and the report of the old one).
C1_CleanedBelongsToOriginal ==
    df_cleaned # None =>
        /\ df_original # None
        /\ ~auto_clean_raises(df_original.val)
        /\ df_cleaned = Some(auto_clean(df_original.val).df)
        /\ cleaning_report = Some(auto_clean(df_original.val).report)

\* C2: the cleaned table is present exactly when the report is, and both,
\* with the column-type map inside the report, are the return value of one
\* auto_clean call.
C2_NeverHalfUpdated ==
    /\ (df_cleaned = None) <=> (cleaning_report = None)
    /\ df_cleaned # None =>
        /\ cleaned_from # None
        /\ ~auto_clean_raises(cleaned_from.val)
        /\ df_cleaned = Some(auto_clean(cleaned_from.val).df)
        /\ cleaning_report = Some(auto_clean(cleaned_from.val).report)
        /\ cleaning_report.val.column_types = detect_column_types(df_cleaned.val)
        /\ cleaning_report.val.final_shape =
              <<NumRows(df_cleaned.val), NumCols(df_cleaned.val)>>

\* a session that cleaned one table and then uploaded another
C2_Witness ==
    /\ df_cleaned # None
    /\ cleaning_report # None
    /\ df_original # cleaned_from

\* s ends with t
EndsWith(s, t) ==
    Len(s) >= Len(t) /\ SubSeq(s, Len(s) - Len(t) + 1, Len(s)) = t

\* the name carries the extension csv, xlsx or xls, in either case
Supported(name) ==
    \E e \in {csv, xlsx, xls} : EndsWith(lower(name), <<".">> \o e)

\* at most 50 MB, a supported extension, and the read succeeds
Accepted(f) ==
    f.size <= 52428800 /\ Supported(f.name) /\ f.parsed # None

LoadCalled == ret # None /\ ret.val.op = "load_file"

\* C23: load_file returns the table read from a file of at most 50 MB (a
\* file of exactly 50 MB included) with extension csv, xlsx or xls whose
\* read succeeds, and no table for any other file; an upload that yields no
\* table leaves the session's original table, cleaned table and report as
\* they were, and an upload that yields one stores it as the original.
C23_RejectedNeverReachesSession ==
    /\ [](\A f \in Files : load_file(f) = IF Accepted(f) THEN f.parsed ELSE None)
    /\ [][(page = "upload" /\ page' = "upload") =>
            LET file == ret'.val.args
                df == ret'.val.outcome.value
            IN  /\ ret'.val.op = "load_file"
                /\ (file.size > 52428800 \/ ~Supported(file.name)) => df = None
                /\ IF df = None
                   THEN UNCHANGED <<df_original, df_cleaned, cleaning_report>>
                   ELSE /\ file.size <= 52428800
                        /\ Supported(file.name)
                        /\ df_original' = df]_vars

\* a session holding an original table, a cleaned table and a report, whose
\* last upload was a csv file one byte over 50 MB
C23_Witness ==
    /\ LoadCalled
    /\ ret.val.args.size = 52428801
    /\ Supported(ret.val.args.name)
    /\ ret.val.outcome.value = None
    /\ df_original # None
    /\ df_cleaned # None
    /\ cleaning_report # None

\* the same session after a file with an unsupported extension
C23_WitnessExtension ==
    /\ LoadCalled
    /\ ret.val.args.size = 52428800
    /\ ~Supported(ret.val.args.name)
    /\ ret.val.outcome.value = None
    /\ df_cleaned # None

\* the same session after a file that could not be read
C23_WitnessRead ==
    /\ LoadCalled
    /\ ret.val.args.size = 52428800
    /\ Supported(ret.val.args.name)
    /\ ret.val.outcome.value = None
    /\ df_cleaned # None

\* what the script run of the current state shows
View == page_routing(page, df_original, df_cleaned, cleaning_report)

SessionData == <<df_original, df_cleaned, cleaning_report>>

Gated == {"report", "statistics", "correlation", "insights", "preview",
          "charts", "custom_chart", "download", "summary"}

\* C25: in every state of a session the cleaning button is shown only when
\* an original table is present, and the report, statistics, insights,
\* charts and export are shown only when the cleaned table and the report
\* are both present (no page fails on a missing report); a cleaned table
\* appears only by a press of that button; selecting the visualization or
\* the export page while no cleaned table is present shows only a warning
\* and changes no session data.
C25_PageGating ==
    /\ [](/\ "clean_button" \in View => df_original # None
          /\ View \cap Gated # {} => (df_cleaned # None /\ cleaning_report # None)
          /\ "TypeError" \notin View)
    /\ [][/\ df_cleaned' # df_cleaned =>
                ("clean_button" \in View /\ df_original # None)
          /\ (page' # page /\ page' \in {"visualization", "export"}
                /\ df_cleaned = None) =>
                (View' = {"warning"} /\ SessionData' = SessionData)
          /\ page' # page => SessionData' = SessionData]_vars

\* the visualization page selected with a table uploaded but not cleaned
C25_Witness ==
    /\ page = "visualization"
    /\ df_original # None
    /\ df_cleaned = None
    /\ View = {"warning"}

\* the export page of a session that has cleaned
C25_WitnessExport ==
    /\ page = "export"
    /\ View = {"download", "summary"}

-----------------------------------------------------------------------------
(* Properties of the cleaning engine *)

CleanReturned ==
    ret # None /\ ret.val.op = "auto_clean" /\ ~ret.val.outcome.raised
CleanedTable == ret.val.outcome.value.df
CleanReport == ret.val.outcome.value.report

DetectReturned ==
    ret # None /\ ret.val.op = "detect_column_types" /\ ~ret.val.outcome.raised

\* C3: the table auto_clean returns has no missing value in any column.
C3_NoMissingAfterClean == CleanReturned => ~HasMissing(CleanedTable)

\* C4: the returned table has the input's row count minus the number of
\* rows of the input that repeat an earlier row (the duplicate count of the
\* pre-clean quality report).
C4_RowsMinusInputDuplicates ==
    CleanReturned =>
        /\ NumRows(CleanedTable) <= NumRows(df_in)
        /\ NumRows(CleanedTable) = NumRows(df_in) - CleanReport.quality.duplicates

\* C4 as amended: the returned table has the input's row count minus the
\* number of rows that repeat an earlier row once the missing values are
\* imputed, which is the report's duplicates_removed and is never less than
\* the duplicate count of the input.
C4_RowsMinusImputedDuplicates ==
    CleanReturned =>
        /\ NumRows(CleanedTable) <= NumRows(df_in)
        /\ NumRows(CleanedTable) =
              NumRows(df_in) - duplicated_sum(handle_missing_values(df_in))
        /\ CleanReport.duplicates_removed = duplicated_sum(handle_missing_values(df_in))
        /\ CleanReport.duplicates_removed >= duplicated_sum(df_in)

\* imputation made rows equal that differed in the input
C4_Witness ==
    /\ CleanReturned
    /\ CleanReport.duplicates_removed > CleanReport.quality.duplicates
    /\ NumRows(CleanedTable) < NumRows(df_in)

\* how often column c occurs in the four lists of a column-type map
Occurrences(types, c) ==
    Cardinality({i \in DOMAIN types.numeric : types.numeric[i] = c})
      + Cardinality({i \in DOMAIN types.categorical : types.categorical[i] = c})
      + Cardinality({i \in DOMAIN types.datetime : types.datetime[i] = c})
      + Cardinality({i \in DOMAIN types.text : types.text[i] = c})

OncePerColumn(types, df) == \A c \in Columns(df) : Occurrences(types, c) = 1

\* C5: detect_column_types puts every column of the table it classifies in
\* exactly one of the four lists, for a table given to it directly and for
\* the narrowed table of auto_clean's step 5.
C5_ClassifierTotality ==
    /\ CleanReturned => OncePerColumn(CleanReport.column_types, CleanedTable)
    /\ DetectReturned => OncePerColumn(ret.val.outcome.value, df_in)

SameValues(a, b) ==
    /\ NumCols(a) = NumCols(b)
    /\ NumRows(a) = NumRows(b)
    /\ \A c \in Columns(a) : a[c].vals = b[c].vals

\* C6: on a table without missing values and without duplicate rows
\* auto_clean changes no value and no row count, and reports
\* duplicates_removed = 0.
C6_CleanIdempotent ==
    (CleanReturned /\ ~HasMissing(df_in) /\ duplicated_sum(df_in) = 0) =>
        /\ SameValues(CleanedTable, df_in)
        /\ CleanReport.duplicates_removed = 0

\* C7: auto_clean returns a table and a report for every table; it never
\* raises.
C7_PipelineCompletes ==
    (ret # None /\ ret.val.op = "auto_clean") => ~ret.val.outcome.raised

\* the decision rule as stated, per column: numeric storage, else every
\* value a date/time, else few distinct values (ratio < 0.05 or fewer than
\* 20, both strict), else text
Classes == {"numeric", "categorical", "datetime", "text"}

EveryValueIsTemporal(col) ==
    \/ col.dtype = "datetime64"
    \/ /\ col.dtype \in {"object", "category"}
       /\ \A v \in Range(col.vals) : isnull(v) \/ IsDateString(v)

RuleClass(df, c) ==
    IF is_numeric_dtype(df[c].dtype) THEN "numeric"
    ELSE IF EveryValueIsTemporal(df[c]) THEN "datetime"
    ELSE IF nunique(df[c]) * 100 < 5 * NumRows(df) \/ nunique(df[c]) < 20
         THEN "categorical"
    ELSE "text"

FollowsRule(types, df) ==
    \A c \in Columns(df) : \A k \in Classes :
        (c \in Range(types[k])) <=> (k = RuleClass(df, c))

\* C10: detect_column_types gives every column the class of the decision
\* rule, applied in precedence order.
C10_DecisionRule ==
    /\ DetectReturned => FollowsRule(ret.val.outcome.value, df_in)
    /\ CleanReturned => FollowsRule(CleanReport.column_types, CleanedTable)

OptimizeReturned ==
    ret # None /\ ret.val.op = "optimize_dtypes" /\ ~ret.val.outcome.raised

\* the smallest signed width among 8, 16 and 32 bits whose range contains
\* lo and hi, both ends included; 64 bits when none does
SmallestWidth(lo, hi) ==
    IF -128 <= lo /\ hi <= 127 THEN "int8"
    ELSE IF -32768 <= lo /\ hi <= 32767 THEN "int16"
    ELSE IF -2147483647 - 1 <= lo /\ hi <= 2147483647 THEN "int32"
    ELSE "int64"

\* C11: optimize_dtypes stores every 64-bit integer column that has rows in
\* the smallest signed width whose range contains the column's minimum and
\* maximum (ends included), and changes no integer value.
C11_SmallestContainingWidth ==
    OptimizeReturned =>
        \A c \in Columns(df_in) :
            (df_in[c].dtype = "int64" /\ Len(df_in[c].vals) > 0) =>
                /\ ret.val.outcome.value.df[c].dtype =
                      SmallestWidth(col_min(df_in[c]), col_max(df_in[c]))
                /\ ret.val.outcome.value.df[c].vals = df_in[c].vals

ImputeReturned ==
    ret # None /\ ret.val.op = "handle_missing_values" /\ ~ret.val.outcome.raised

\* f is the median of the values data: the middle one, or the mean of the
\* two middle ones
IsMedian(f, data) ==
    LET s == Sorted(data)
        n == Len(s)
    IN  IF n % 2 = 1 THEN f = s[(n + 1) \div 2]
        ELSE 2 * f = s[n \div 2] + s[n \div 2 + 1]

\* v is a present value of the column that no other present value outnumbers
IsMostFrequent(v, col) ==
    /\ ~isnull(v)
    /\ v \in Range(col.vals)
    /\ \A w \in Range(col.vals) \ {NA} : Count(col, w) <= Count(col, v)

\* C16: handle_missing_values keeps the rows, the storage types and every
\* present cell; it fills a missing cell of a numeric column with the median
\* of the column's present values (4.5 for the present values 1 .. 8, with
\* 9 rows before and after), a missing cell of a text column with the
\* column's most frequent present value, and every cell of an entirely
\* missing text column with "Unknown"; it does not raise.
C16_Imputation ==
    (ret # None /\ ret.val.op = "handle_missing_values") =>
        /\ ~ret.val.outcome.raised
        /\ LET out == ret.val.outcome.value
           IN  /\ NumCols(out) = NumCols(df_in)
               /\ NumRows(out) = NumRows(df_in)
               /\ \A c \in Columns(df_in) :
                     /\ out[c].dtype = df_in[c].dtype
                     /\ \A i \in DOMAIN df_in[c].vals :
                           IF ~isnull(df_in[c].vals[i])
                           THEN out[c].vals[i] = df_in[c].vals[i]
                           ELSE IF is_numeric_dtype(df_in[c].dtype)
                           THEN dropna(df_in[c]) # <<>> =>
                                    IsMedian(out[c].vals[i], dropna(df_in[c]))
                           ELSE IF df_in[c].dtype = "object"
                           THEN IF dropna(df_in[c]) # <<>>
                                THEN IsMostFrequent(out[c].vals[i], df_in[c])
                                ELSE out[c].vals[i] = Text("Unknown")
                           ELSE TRUE
               /\ df_in = MedianTable =>
                     (out[1].vals[1] = 9 /\ NumRows(out) = 9)

\* an entirely missing text column of several rows came back as "Unknown"
C16_Witness ==
    /\ ImputeReturned
    /\ NumRows(df_in) >= 2
    /\ df_in[1].dtype = "object"
    /\ dropna(df_in[1]) = <<>>
    /\ \A i \in DOMAIN df_in[1].vals : ret.val.outcome.value[1].vals[i] = Text("Unknown")

\* C17: no call of a core operation changes a field of the component
\* instance: DataCleaner.cleaning_report, the one field that is not fixed
\* at construction, is after every step what it was before.
C17_NoRetainedState == [][cleaner_report' = cleaner_report]_vars

AutoCleanStep == ret = None /\ ret' # None /\ ret'.val.op = "auto_clean"

\* C18: auto_clean does not change the table it is given (rows, values,
\* missing cells and storage types are after the call what they were
\* before), and the table it returns is another object than its argument.
C18_InputNotMutated ==
    [][AutoCleanStep =>
          /\ df_in' = df_in
          /\ ~ret'.val.outcome.raised =>
                /\ auto_clean_obj(df_in).ref # 1
                /\ auto_clean_obj(df_in).heap[auto_clean_obj(df_in).ref]
                      = ret'.val.outcome.value.df]_vars

\* auto_clean returned a table without missing values and the table it was
\* given still has its missing cells
C18_Witness ==
    /\ CleanReturned
    /\ HasMissing(df_in)
    /\ ~HasMissing(CleanedTable)
    /\ NumRows(CleanedTable) < NumRows(df_in)

MissingCells(df, c) == {i \in DOMAIN df[c].vals : isnull(df[c].vals[i])}

\* p hundredths of a percent is count / rows * 100 rounded to 2 decimals
IsPercentOf(p, count, rows) ==
    /\ 2 * (p * rows - count * 10000) <= rows
    /\ 2 * (count * 10000 - p * rows) <= rows

RepeatsEarlierRow(df, i) ==
    \E j \in 1 .. (i - 1) : \A c \in Columns(df) : df[c].vals[j] = df[c].vals[i]

AnalyzeStep == ret = None /\ ret' # None /\ ret'.val.op = "analyze_data_quality"

\* C20: analyze_data_quality never raises and leaves the table as it was;
\* for a table without rows it reports no missing percentage; a column has
\* an entry exactly when it has missing cells, with count = the number of
\* missing cells and percentage = count / total_rows * 100 rounded to 2
\* decimals, above 0 and at most 100; duplicates = the number of rows that
\* repeat an earlier row across all columns.
C20_QualityReport ==
    [][AnalyzeStep =>
          /\ df_in' = df_in
          /\ ~ret'.val.outcome.raised
          /\ LET q == ret'.val.outcome.value
             IN  /\ q.total_rows = NumRows(df_in)
                 /\ q.total_columns = NumCols(df_in)
                 /\ NumRows(df_in) = 0 => DOMAIN q.missing_values = {}
                 /\ DOMAIN q.missing_values =
                       {c \in Columns(df_in) : MissingCells(df_in, c) # {}}
                 /\ \A c \in DOMAIN q.missing_values :
                       /\ q.missing_values[c].count = Cardinality(MissingCells(df_in, c))
                       /\ IsPercentOf(q.missing_values[c].percentage,
                                      q.missing_values[c].count, NumRows(df_in))
                       /\ q.missing_values[c].percentage > 0
                       /\ q.missing_values[c].percentage <= 10000
                 /\ q.duplicates =
                       Cardinality({i \in 1 .. NumRows(df_in) :
                                       RepeatsEarlierRow(df_in, i)})]_vars

\* a report on a table of 3 rows, one of them a repeat, with 2 of 3 cells
\* of a column missing (66.67 percent)
C20_Witness ==
    /\ ret # None
    /\ ret.val.op = "analyze_data_quality"
    /\ ~ret.val.outcome.raised
    /\ NumRows(df_in) = 3
    /\ ret.val.outcome.value.duplicates = 1
    /\ 1 \in DOMAIN ret.val.outcome.value.missing_values
    /\ ret.val.outcome.value.missing_values[1].count = 2
    /\ ret.val.outcome.value.missing_values[1].percentage = 6667

\* C21: within auto_clean only the deduplication step changes the row
\* count: imputation and narrowing return as many rows as they are given
\* (called on their own and as steps 2 and 4), classification returns no
\* table, and in every report final_shape is (quality.total_rows -
\* duplicates_removed, quality.total_columns), the shape of the returned
\* table.
C21_OnlyDeduplicationDropsRows ==
    /\ ImputeReturned =>
          /\ NumRows(ret.val.outcome.value) = NumRows(df_in)
          /\ NumCols(ret.val.outcome.value) = NumCols(df_in)
    /\ OptimizeReturned =>
          /\ NumRows(ret.val.outcome.value.df) = NumRows(df_in)
          /\ NumCols(ret.val.outcome.value.df) = NumCols(df_in)
    /\ CleanReturned =>
          /\ CleanReport.quality.total_rows = NumRows(df_in)
          /\ CleanReport.quality.total_columns = NumCols(df_in)
          /\ CleanReport.final_shape[1] =
                CleanReport.quality.total_rows - CleanReport.duplicates_removed
          /\ CleanReport.final_shape[2] = CleanReport.quality.total_columns
          /\ CleanReport.final_shape = <<NumRows(CleanedTable), NumCols(CleanedTable)>>
          /\ CleanReport.duplicates_removed >= 0

\* a table with a missing value that loses a row to deduplication and whose
\* storage is narrowed
C21_Witness ==
    /\ CleanReturned
    /\ HasMissing(df_in)
    /\ CleanReport.duplicates_removed > 0
    /\ CleanReport.final_shape[1] > 0
    /\ CleanReport.final_shape[1] < CleanReport.quality.total_rows
    /\ CleanedTable[1].dtype # df_in[1].dtype

\* C22: auto_clean runs profile, impute, deduplicate, narrow, classify in
\* that order: the report's quality section is the profile of the input
\* table (its missing counts are the input's), duplicates_removed is the
\* row count of the imputed table minus that of the deduplicated table,
\* memory_before and memory_after are the sizes of the deduplicated table and
\* of its narrowed form, the returned table is that narrowed form and
\* column_types is its classification.
C22_FixedStepOrder ==
    CleanReturned =>
        LET filled == handle_missing_values(df_in)
            unique == drop_duplicates(filled)
            narrow == optimized_frame(unique)
        IN  /\ CleanReport.quality = analyze_data_quality(df_in)
            /\ DOMAIN CleanReport.quality.missing_values =
                  {c \in Columns(df_in) : MissingCells(df_in, c) # {}}
            /\ \A c \in DOMAIN CleanReport.quality.missing_values :
                  CleanReport.quality.missing_values[c].count =
                      Cardinality(MissingCells(df_in, c))
            /\ CleanReport.duplicates_removed = NumRows(filled) - NumRows(unique)
            /\ CleanReport.optimization.memory_before = memory_usage(unique)
            /\ CleanReport.optimization.memory_after = memory_usage(narrow)
            /\ CleanedTable = narrow
            /\ CleanReport.column_types = detect_column_types(narrow)

\* a run in which every other order would show in the report: the input
\* has a missing value, the fill adds a duplicate, narrowing makes two kept
\* rows equal, the deduplicated table is smaller than the input, and the
\* narrowed table classifies differently from the deduplicated one
C22_Witness ==
    /\ CleanReturned
    /\ DOMAIN CleanReport.quality.missing_values # {}
    /\ CleanReport.duplicates_removed > CleanReport.quality.duplicates
    /\ duplicated_sum(CleanedTable) > 0
    /\ CleanReport.optimization.memory_before # CleanReport.quality.memory_usage
    /\ CleanReport.column_types #
          detect_column_types(drop_duplicates(handle_missing_values(df_in)))

\* C24: the table auto_clean returns has no two rows that are equal in
\* every column, and auto_clean on that table removes no row.
C24_ReturnedRowsDistinct ==
    CleanReturned =>
        /\ \A i, j \in 1 .. NumRows(CleanedTable) :
              i # j => RowAt(CleanedTable, i) # RowAt(CleanedTable, j)
        /\ ~auto_clean_raises(CleanedTable) =>
              auto_clean(CleanedTable).report.duplicates_removed = 0

-----------------------------------------------------------------------------
(* Properties of the analyzer *)

Called(op) == ret # None /\ ret.val.op = op
Outcome == ret.val.outcome
IsEmptyDict(outcome) == ~outcome.raised /\ DOMAIN outcome.value = {}

\* C8: distribution_analysis on an absent or non-numeric column signals an
\* error, which is not the empty result of a numeric column with fewer than
\* 3 present values.
C8_MisuseIsAnError ==
    (Called("distribution_analysis") /\ distribution_misuse(df_in, column)) =>
        (Outcome.raised /\ ~IsEmptyDict(Outcome))

\* C9: degenerate data raises nothing and gives the empty result:
\* correlation_analysis with fewer than 2 numeric columns an empty matrix
\* and no strong pair, distribution_analysis on a numeric column with fewer
\* than 3 present values the empty result, categorical_analysis on a column
\* without a present value most_common None with count 0 and percentage 0.
C9_DegenerateDataIsEmpty ==
    /\ (Called("correlation_analysis") /\ Len(number_columns(df_in)) < 2) =>
          /\ ~Outcome.raised
          /\ DOMAIN Outcome.value.matrix = {}
          /\ Len(Outcome.value.strong) = 0
    /\ (/\ Called("distribution_analysis")
        /\ ~distribution_misuse(df_in, column)
        /\ Len(dropna(df_in[column])) < 3) => IsEmptyDict(Outcome)
    /\ (/\ Called("categorical_analysis")
        /\ column \in Columns(df_in)
        /\ dropna(df_in[column]) = <<>>) =>
          /\ ~Outcome.raised
          /\ Outcome.value.most_common = None
          /\ Outcome.value.most_common_count = 0
          /\ Outcome.value.most_common_pct = 0

\* categorical_analysis was called on a column whose rows are all missing
C9_Witness ==
    /\ Called("categorical_analysis")
    /\ column \in Columns(df_in)
    /\ NumRows(df_in) > 0
    /\ dropna(df_in[column]) = <<>>
    /\ ~Outcome.raised

\* the position of the pair (a, b) in the row-by-row walk over the pairs
\* i < j of cols; 0 when it is not one of them
PairRank(cols, a, b) ==
    IF \E i, j \in DOMAIN cols : i < j /\ cols[i] = a /\ cols[j] = b
    THEN LET i == CHOOSE x \in DOMAIN cols : cols[x] = a
             j == CHOOSE x \in DOMAIN cols : cols[x] = b
         IN  i * (Len(cols) + 1) + j
    ELSE 0

\* |r| > 0.7 for a defined correlation r = cov / sqrt(var)
ExceedsThreshold(r) == r.var > 0 /\ 100 * r.cov * r.cov > 49 * r.var

\* C12: the strong-pairs list has an entry for numeric columns i < j exactly
\* when |correlation(i, j)| > 0.7 (a correlation of exactly 0.7 and an
\* undefined one are left out); every entry is a pair i < j, no pair occurs
\* twice or reversed, the entries are in row-major order, and the value of
\* an entry is the matrix entry rounded to 3 decimals.
C12_StrongPairs ==
    (Called("correlation_analysis") /\ Len(number_columns(df_in)) >= 2) =>
        LET cols == number_columns(df_in)
            S == Outcome.value.strong
            M == Outcome.value.matrix
        IN  /\ ~Outcome.raised
            /\ \A i, j \in DOMAIN cols : i < j =>
                  ((\E k \in DOMAIN S : S[k].var1 = cols[i] /\ S[k].var2 = cols[j])
                     <=> ExceedsThreshold(M[<<cols[i], cols[j]>>]))
            /\ \A k \in DOMAIN S : PairRank(cols, S[k].var1, S[k].var2) > 0
            /\ \A k, l \in DOMAIN S : k < l =>
                  /\ {S[k].var1, S[k].var2} # {S[l].var1, S[l].var2}
                  /\ PairRank(cols, S[k].var1, S[k].var2)
                        < PairRank(cols, S[l].var1, S[l].var2)
            /\ \A k \in DOMAIN S :
                  /\ S[k].correlation = round3(M[<<S[k].var1, S[k].var2>>])
                  /\ Abs(S[k].correlation) >= 700
                  /\ Abs(S[k].correlation) <= 1000

\* three numeric columns: the pair (1, 2) has correlation exactly 0.7 and
\* is left out, the pair (2, 3) is weaker, the pair (1, 3) is reported
\* with the rounded value -1.0
C12_Witness ==
    /\ Called("correlation_analysis")
    /\ Len(number_columns(df_in)) = 3
    /\ 100 * corr(df_in, 1, 2).cov * corr(df_in, 1, 2).cov = 49 * corr(df_in, 1, 2).var
    /\ Len(Outcome.value.strong) = 1
    /\ Outcome.value.strong[1].var1 = 1
    /\ Outcome.value.strong[1].var2 = 3
    /\ Outcome.value.strong[1].correlation = -1000

\* value v lies strictly outside the fences made of Q1 and Q3 (both times 4)
OutsideFences(v, Q1, Q3) ==
    \/ 8 * v < 2 * Q1 - 3 * (Q3 - Q1)
    \/ 8 * v > 2 * Q3 + 3 * (Q3 - Q1)

OnFence(v, Q1, Q3) ==
    \/ 8 * v = 2 * Q1 - 3 * (Q3 - Q1)
    \/ 8 * v = 2 * Q3 + 3 * (Q3 - Q1)

AgeTable == <<[dtype |-> "int64", vals |-> <<10, 12, 11, 13, 10, 1000>>]>>

\* C13: distribution_analysis counts, and detect_outliers flags, exactly the
\* present values strictly below Q1 - 1.5 IQR or strictly above
\* Q3 + 1.5 IQR (a value on a fence is not an outlier); for the column
\* [10, 12, 11, 13, 10, 1000] that is the value 1000 alone.
C13_StrictFences ==
    /\ (Called("distribution_analysis") /\ ~Outcome.raised
          /\ ~IsEmptyDict(Outcome)) =>
          LET data == dropna(df_in[column])
              d == Outcome.value
          IN  /\ d.Q1 = quantile_x4(Sorted(data), 1)
              /\ d.Q3 = quantile_x4(Sorted(data), 3)
              /\ d.outliers_count =
                    Cardinality({i \in DOMAIN data : OutsideFences(data[i], d.Q1, d.Q3)})
              /\ df_in = AgeTable => d.outliers_count = 1
    /\ (Called("detect_outliers") /\ ~Outcome.raised
          /\ column \in Columns(df_in) /\ is_numeric_dtype(df_in[column].dtype)
          /\ Len(dropna(df_in[column])) > 0) =>
          LET col == df_in[column]
              s == Sorted(dropna(col))
              flags == Outcome.value
          IN  /\ DOMAIN flags = DOMAIN col.vals
              /\ \A i \in DOMAIN col.vals :
                    flags[i] <=>
                        /\ ~isnull(col.vals[i])
                        /\ OutsideFences(col.vals[i], quantile_x4(s, 1), quantile_x4(s, 3))
              /\ df_in = AgeTable => {i \in DOMAIN flags : flags[i]} = {6}

\* a column with a value exactly on the upper fence, which is not counted
C13_Witness ==
    /\ Called("distribution_analysis")
    /\ ~Outcome.raised
    /\ ~IsEmptyDict(Outcome)
    /\ \E i \in DOMAIN df_in[column].vals :
          /\ ~isnull(df_in[column].vals[i])
          /\ OnFence(df_in[column].vals[i], Outcome.value.Q1, Outcome.value.Q3)
          /\ Outcome.value.Q3 > Outcome.value.Q1
    /\ Outcome.value.outliers_count = 0

-----------------------------------------------------------------------------
(* Properties of insight generation *)

InsightsReturned(op) == ret # None /\ ret.val.op = op /\ ~ret.val.outcome.raised

\* the group of an insight: 1 per-column findings, 2 correlations, 3 dominant
\* categories; and its place among the findings of one column
GroupOf(x) ==
    CASE x.kind \in {"outlier", "skew", "normal"} -> 1
      [] x.kind = "correlation" -> 2
      [] x.kind = "dominant" -> 3

KindRank(x) ==
    CASE x.kind = "outlier" -> 1
      [] x.kind = "skew" -> 2
      [] x.kind = "normal" -> 3
      [] OTHER -> 0

PositionIn(s, x) == CHOOSE i \in DOMAIN s : s[i] = x

Has(L, kind, col) == \E k \in DOMAIN L : L[k].kind = kind /\ L[k].col = col

OfGroup(L, g) == SelectSeq(L, LAMBDA x : GroupOf(x) = g)

\* the column has a distribution summary: numeric with 3 present values
HasSummary(df, c) == ~distribution_misuse(df, c) /\ Len(dropna(df[c])) >= 3

\* C14: the insights come in three groups in a fixed order.  First the
\* first 5 numeric columns of the column-type map in order, each with zero
\* to three insights in the order outlier (outlier percentage > 5), skew
\* (|skewness| > 1, right for positive, left for negative), normal (verdict
\* true), each check on its own; then the first 3 strong pairs in discovery
\* order; then the first 3 categorical columns in order, each with a
\* dominant-category insight exactly when the most frequent value's share
\* exceeds 50%.  The list has at most 21 entries.
C14_InsightOrder ==
    InsightsReturned("generate_insights") =>
        LET L == ret.val.outcome.value
            df == ret.val.args.df
            scipy == ret.val.args.scipy
            nums == Prefix(ret.val.args.column_types.numeric, 5)
            cats == Prefix(ret.val.args.column_types.categorical, 3)
            strong == Prefix(correlation_analysis(df).strong, 3)
            G1 == OfGroup(L, 1)
            G2 == OfGroup(L, 2)
            G3 == OfGroup(L, 3)
        IN  /\ Len(L) <= 5 * 3 + 3 + 3
            /\ L = G1 \o G2 \o G3
            /\ \A k \in DOMAIN G1 : G1[k].col \in Range(nums)
            /\ \A k, l \in DOMAIN G1 : k < l =>
                  \/ PositionIn(nums, G1[k].col) < PositionIn(nums, G1[l].col)
                  \/ /\ G1[k].col = G1[l].col
                     /\ KindRank(G1[k]) < KindRank(G1[l])
            /\ \A c \in Range(nums) :
                  /\ Has(L, "outlier", c) <=>
                        /\ HasSummary(df, c)
                        /\ distribution_summary(dropna(df[c])).outliers_percentage > 500
                  /\ Has(L, "skew", c) <=>
                        (HasSummary(df, c) /\ Abs(scipy[c].skewness) > 1000)
                  /\ Has(L, "normal", c) <=>
                        (HasSummary(df, c) /\ scipy[c].is_normal)
            /\ \A k \in DOMAIN G1 : G1[k].kind = "skew" =>
                  G1[k].direction =
                      IF scipy[G1[k].col].skewness > 0 THEN "right" ELSE "left"
            /\ Len(G2) = Len(strong)
            /\ \A k \in DOMAIN G2 :
                  /\ G2[k].col = strong[k].var1
                  /\ G2[k].col2 = strong[k].var2
                  /\ G2[k].value = strong[k].correlation
            /\ \A k \in DOMAIN G3 : G3[k].col \in Range(cats)
            /\ \A k, l \in DOMAIN G3 : k < l =>
                  PositionIn(cats, G3[k].col) < PositionIn(cats, G3[l].col)
            /\ \A c \in Range(cats) :
                  Has(L, "dominant", c) <=>
                      categorical_analysis(df, c).value.most_common_pct > 5000

\* a table wider than every cap: a sixth numeric column with an outlier, a
\* fourth strong pair and a fourth categorical column with a dominant value
\* are left out, and one column contributes all three of its insights
C14_Witness ==
    /\ InsightsReturned("generate_insights")
    /\ LET L == ret.val.outcome.value
           df == ret.val.args.df
           types == ret.val.args.column_types
       IN  /\ Len(types.numeric) = 6
           /\ Len(types.categorical) = 4
           /\ distribution_summary(dropna(df[types.numeric[6]])).outliers_percentage > 500
           /\ ~Has(L, "outlier", types.numeric[6])
           /\ Len(correlation_analysis(df).strong) > 3
           /\ Len(OfGroup(L, 2)) = 3
           /\ categorical_analysis(df, types.categorical[4]).value.most_common_pct > 5000
           /\ ~Has(L, "dominant", types.categorical[4])
           /\ \E c \in Range(types.numeric) :
                 Has(L, "outlier", c) /\ Has(L, "skew", c) /\ Has(L, "normal", c)
           /\ \E c \in Range(types.numeric) :
                 ~Has(L, "outlier", c) /\ Has(L, "skew", c) /\ ~Has(L, "normal", c)

\* C15: scenario 3 through auto_clean and then generate_insights on the
\* cleaned table with the report's column-type map: the column city (3
\* distinct values in 100 rows, one of them 60 times) is classified
\* categorical, categorical_analysis gives most_common_pct = 60.0, and the
\* insights hold a dominant-category insight for city.
C15_Scenario3 ==
    (InsightsReturned("show_insights") /\ df_in = CityTable) =>
        /\ 1 \in Range(ret.val.args.column_types.categorical)
        /\ categorical_analysis(ret.val.args.df, 1).value.most_common_pct = 6000
        /\ Has(ret.val.outcome.value, "dominant", 1)

-----------------------------------------------------------------------------
(* Properties of the chart selection *)

Charts(V, kind) == SelectSeq(V, LAMBDA x : x.kind = kind)

\* C19: from the column-type map create_auto_visualizations makes a
\* histogram for each of the first 6 numeric columns and no other, one
\* correlation heatmap exactly when the map has at least 2 numeric columns,
\* at most 4 bar charts and only for categorical columns with at most 20
\* distinct values, and one time-series chart exactly when the map has a
\* datetime and a numeric column, made of the first of each; at most 12
\* charts in all.
C19_ChartSelection ==
    InsightsReturned("create_auto_visualizations") =>
        LET V == ret.val.outcome.value
            df == ret.val.args.df
            types == ret.val.args.column_types
        IN  /\ Len(V) <= 12
            /\ Len(Charts(V, "hist")) <= 6
            /\ Charts(V, "hist") =
                  [k \in DOMAIN Prefix(types.numeric, 6) |->
                      Chart("hist", types.numeric[k], 0)]
            /\ Len(Charts(V, "correlation_heatmap")) =
                  IF Len(types.numeric) >= 2 THEN 1 ELSE 0
            /\ Len(Charts(V, "bar")) <= 4
            /\ \A k \in DOMAIN Charts(V, "bar") :
                  LET c == Charts(V, "bar")[k].col
                  IN  c \in Range(types.categorical) /\ nunique(df[c]) <= 20
            /\ Len(Charts(V, "time_series")) =
                  IF Len(types.datetime) > 0 /\ Len(types.numeric) > 0 THEN 1 ELSE 0
            /\ \A k \in DOMAIN Charts(V, "time_series") :
                  /\ Charts(V, "time_series")[k].col = types.datetime[1]
                  /\ Charts(V, "time_series")[k].col2 = types.numeric[1]

=============================================================================
